---- MODULE Spec2Model ----
(***************************************************************************)
(* Mass-spring chain of src/main.ts.  The file holds three near-duplicate  *)
(* programs; the two that keep a set of pinned nodes are modelled:         *)
(*   variant "A"  lines   1-201  (node-count resizing, anchor not          *)
(*                                shift-toggleable)                        *)
(*   variant "C"  lines 329-519  (updateGravity, any node shift-toggleable)*)
(*                                                                         *)
(* Numbers.  A JavaScript number is modelled as a fixed-point integer in   *)
(* units of 1/Scale, with NaN as a distinguished value.  Products and      *)
(* quotients round towards minus infinity at that resolution (the model's  *)
(* counterpart of floating-point rounding).  Node indices are 0-based as   *)
(* in the source; circles is a TLA+ sequence, so node i is circles[i+1].   *)
(***************************************************************************)
EXTENDS Integers, Sequences, FiniteSets, TLC

\* ------------------------------------------------------------------ bounds
MaxSteps == 4

\* ------------------------------------------------------- number modelling
Scale == 1000
NaN == 2000000000

IsNaN(a) == a = NaN

Num(n) == n * Scale

MulDiv(a, n, d) == (a \div d) * n + ((a % d) * n) \div d

FAdd(a, b) == IF IsNaN(a) \/ IsNaN(b) THEN NaN ELSE a + b

FSub(a, b) == IF IsNaN(a) \/ IsNaN(b) THEN NaN ELSE a - b

FMul(a, b) == IF IsNaN(a) \/ IsNaN(b) THEN NaN ELSE MulDiv(a, b, Scale)

FDiv(a, b) == IF IsNaN(a) \/ IsNaN(b) THEN NaN ELSE MulDiv(a, Scale, b)

FTimesInt(a, n) == IF IsNaN(a) THEN NaN ELSE a * n

FOverInt(a, n) == IF IsNaN(a) THEN NaN ELSE a \div n

FLess(a, b) == ~IsNaN(a) /\ ~IsNaN(b) /\ a < b

Vec(x, y) == <<x, y>>

VAdd(a, b) == <<FAdd(a[1], b[1]), FAdd(a[2], b[2])>>

VSub(a, b) == <<FSub(a[1], b[1]), FSub(a[2], b[2])>>

VTimesInt(a, n) == <<FTimesInt(a[1], n), FTimesInt(a[2], n)>>

Zero == Vec(0, 0)

\* unary plus on the strings the UI controls may deliver
ToNumber(val) ==
  CASE val = "abc" -> NaN
    [] val = "" -> 0
    [] val = "-1" -> -1
    [] val = "0" -> 0
    [] val = "2" -> 2
    [] val = "3" -> 3
    [] val = "5" -> 5
    [] val = "100" -> 100

\* ------------------------------------------------------ program constants
fps == 60
forceDampen == 12
circleGapA == 120
circleGapC == 160
circleMass == 500
gInit == 9800
springLengthInit == 80
springConstantInit == 4
numCirclesInitA == 10
numCirclesC == 12
frictionNum == 980
originX == 800
originY == 250
dtMax == 17
flick == 2

\* ----------------------------------------------------------------- inputs
Variants == {"A", "C"}
Points == {Vec(800, 250), Vec(801, 530)}
InitialTime == 1000
Times == {1016, 11000}
ConstVals == {"abc", "2"}
LengthVals == {"abc"}
GravityVals == {"abc"}
NumVals == {"-1", "0", "2", "3"}

VARIABLES
  variant,           \* which of the two programs runs
  circles,           \* the chain: sequence of [pos, velocity, mass]
  springLength, springConstant, g,
  currentDragging, stationaryPoints, numCircles,
  dragging, mousePos, pressingShift, prev,
  \* history (observation only, never read by the handlers)
  steps,             \* number of events handled so far
  lastEvent,         \* the event handled last
  prevEvent,         \* the event handled before it
  preCircles,        \* the chain before the last event
  threw,             \* the last handler ended in a TypeError
  integrated,        \* indices accelerateCircles updated in the last tick
  drawn,             \* node positions handed to drawLines/drawCircles last
  positiveOnly,      \* every updateNumCircles so far had a positive integer
  pinPos,            \* position each pinned index had when it was pinned
  drag               \* the current standard drag session

vars == <<variant, circles, springLength, springConstant, g, currentDragging,
          stationaryPoints, numCircles, dragging, mousePos, pressingShift,
          prev, steps, lastEvent, prevEvent, preCircles, threw, integrated,
          pinPos, drag,
          drawn, positiveOnly>>

\* ------------------------------------------------------------ chain model
PhysicsCircle(mass, pos) == [pos |-> pos, velocity |-> Zero, mass |-> mass]

At(c, i) == c[i + 1]

Indices(c) == 0 .. (Len(c) - 1)

circleGap(v) == IF v = "A" THEN circleGapA ELSE circleGapC

generatePoints(v, pos, num) ==
  [j \in 1 .. (IF num > 0 THEN num ELSE 0) |->
     PhysicsCircle(circleMass,
                   Vec(pos[1], FAdd(Num((j - 1) * circleGap(v)), pos[2])))]

Origin == Vec(Num(originX), Num(originY))

\* line 38: generatePoints(new Vector(800, 250), numCircles); line 366 has
\* the literal 12
ResetCountMutInitial(v, n) == IF v = "A" THEN numCirclesInitA ELSE numCirclesC

ResetCount(v, n) == IF v = "A" THEN n ELSE numCirclesC

\* Array.prototype.splice(start) with one argument: drops start..end
spliceMutOffByOne(c, start) ==
  LET s == IF start < 0 THEN (IF Len(c) + start > 0 THEN Len(c) + start ELSE 0)
           ELSE (IF start < Len(c) THEN start ELSE Len(c))
      t == IF s > 0 THEN s - 1 ELSE 0
  IN SubSeq(c, 1, t)

splice(c, start) ==
  LET s == IF start < 0 THEN (IF Len(c) + start > 0 THEN Len(c) + start ELSE 0)
           ELSE (IF start < Len(c) THEN start ELSE Len(c))
  IN SubSeq(c, 1, s)

\* squared Euclidean distance in whole canvas units (monotone in distance)
distance(a, p) ==
  IF IsNaN(a[1]) \/ IsNaN(a[2]) THEN NaN
  ELSE LET dx == (a[1] - p[1]) \div Scale
           dy == (a[2] - p[2]) \div Scale
       IN dx * dx + dy * dy

\* line 145: distance(circles[i].pos, p) < distance(circles[res].pos, p)
CloserMutOrEqual(d, dres) == ~IsNaN(d) /\ ~IsNaN(dres) /\ d <= dres

Closer(d, dres) == FLess(d, dres)

RECURSIVE ClosestFrom(_, _, _, _)
ClosestFrom(c, p, i, res) ==
  IF i >= Len(c) THEN res
  ELSE ClosestFrom(c, p, i + 1,
         IF Closer(distance(At(c, i).pos, p), distance(At(c, res).pos, p))
         THEN i ELSE res)

getClosestPointIndex(c, p) == ClosestFrom(c, p, 0, 0)

\* ------------------------------------------------------------- integrator
Min(a, b) == IF a < b THEN a ELSE b

Max(a, b) == IF a > b THEN a ELSE b

clampMutNoCeiling(val, min, max) == Max(val, min)

clamp(val, min, max) == Max(Min(val, max), min)

springForceCircles(c1, c2, k, len) ==
  LET diff == VSub(c1.pos, c2.pos)
  IN Vec(FMul(k, diff[1]), FMul(k, FSub(diff[2], len)))

\* the i == currentDragging test does not look at dragging
Skipped(i, sp, cd) == i \in sp \/ i = cd

\* line 173 / 490: force = forceBelow - forceAbove
NetForceMutSum(forceBelow, forceAbove) == VAdd(forceBelow, forceAbove)

NetForce(forceBelow, forceAbove) == VSub(forceBelow, forceAbove)

\* new velocity of node i >= 1 (lines 168-183 / 487-499)
NewVelocity(v, c, i, k, len, grav, dx) ==
  LET n == At(c, i)
      weight == FMul(n.mass, grav)
      spring == IF i < Len(c) - 1
                THEN springForceCircles(At(c, i + 1), n, k, len)
                ELSE Zero
      forceBelow == IF v = "A" THEN spring
                    ELSE Vec(spring[1], FAdd(spring[2], weight))
      forceAbove == springForceCircles(n, At(c, i - 1), k, len)
      net == NetForce(forceBelow, forceAbove)
      fx == FOverInt(net[1], forceDampen)
      fy0 == FOverInt(net[2], forceDampen)
      fy == IF v = "A" THEN FAdd(fy0, weight) ELSE fy0
      accY == FOverInt(FDiv(fy, n.mass), fps)
      accX == FOverInt(FDiv(fx, n.mass), fps)
      vfy == FMul(FAdd(n.velocity[2], FTimesInt(accY, dx)), frictionNum)
      vfx == FMul(FAdd(n.velocity[1], FTimesInt(accX, dx)), frictionNum)
  IN Vec(vfx, vfy)

\* The loop runs i = 0, 1, ...; node 0, when not skipped, reads
\* circles[-1].pos (line 171 / 474) and throws before any velocity has been
\* written.
AccelerateThrows(c, sp, cd) == Len(c) > 0 /\ ~Skipped(0, sp, cd)

Integrated(c, sp, cd) ==
  IF AccelerateThrows(c, sp, cd) THEN {}
  ELSE {i \in Indices(c) : ~Skipped(i, sp, cd)}

\* one pass of the loop body for a node that is not skipped: the velocity
\* of circles[i] is overwritten in place (lines 182-183 / 498-499)
IntegrateNodeMutMoves(v, c, i, k, len, grav, dx) ==
  LET vel == NewVelocity(v, c, i, k, len, grav, dx)
  IN [c EXCEPT ![i + 1].velocity = vel,
               ![i + 1].pos = VAdd(c[i + 1].pos, vel)]

IntegrateNode(v, c, i, k, len, grav, dx) ==
  [c EXCEPT ![i + 1].velocity = NewVelocity(v, c, i, k, len, grav, dx)]

\* the for loop from index i on, on the array as the earlier passes left it
RECURSIVE AccelerateFrom(_, _, _, _, _, _, _, _, _)
AccelerateFrom(v, c, i, sp, cd, k, len, grav, dx) ==
  IF i >= Len(c) THEN c
  ELSE AccelerateFrom(v,
         IF Skipped(i, sp, cd) THEN c
         ELSE IntegrateNode(v, c, i, k, len, grav, dx),
         i + 1, sp, cd, k, len, grav, dx)

accelerateCircles(v, c, sp, cd, k, len, grav, dx) ==
  IF AccelerateThrows(c, sp, cd) THEN c
  ELSE AccelerateFrom(v, c, 0, sp, cd, k, len, grav, dx)

MoveAll(c) == [j \in 1 .. Len(c) |->
                 LET n == c[j] IN [n EXCEPT !.pos = VAdd(n.pos, n.velocity)]]

\* what drawLines(circles) and drawCircles(circles) read (lines 131-132)
Positions(c) == [j \in 1 .. Len(c) |-> c[j].pos]

\* ---------------------------------------------------------------- history
\* elapsed is now - prev of a tick, 0 for the other events
Event(kind, p, val, elapsed) ==
  [kind |-> kind, p |-> p, val |-> val, elapsed |-> elapsed]

NoEvent == Event("none", Zero, "", 0)

NoDrag == [pure |-> FALSE, d |-> 0, pos0 |-> Zero, down |-> Zero, ptr |-> Zero]

\* +val is an integer greater than 0
PositiveInteger(val) == ~IsNaN(ToNumber(val)) /\ ToNumber(val) > 0

Log(ev) ==
  /\ steps < MaxSteps
  /\ steps' = steps + 1
  /\ lastEvent' = ev
  /\ prevEvent' = lastEvent
  /\ preCircles' = circles
  /\ positiveOnly' = (positiveOnly /\ (ev.kind = "updateNumCircles"
                                          => PositiveInteger(ev.val)))
  /\ IF ev.kind = "tick" THEN TRUE ELSE drawn' = drawn

\* ------------------------------------------------------------------- Init
Init ==
  /\ variant \in Variants
  /\ numCircles = ResetCount(variant, numCirclesInitA)
  /\ circles = generatePoints(variant, Origin, numCircles)
  /\ springLength = Num(springLengthInit)
  /\ springConstant = Num(springConstantInit)
  /\ g = gInit
  /\ currentDragging = 0
  /\ stationaryPoints = {0}
  /\ dragging = FALSE
  /\ mousePos = Zero
  /\ pressingShift = FALSE
  /\ prev = InitialTime
  /\ steps = 0
  /\ lastEvent = NoEvent
  /\ prevEvent = NoEvent
  /\ preCircles = circles
  /\ threw = FALSE
  /\ integrated = {}
  /\ drawn = <<>>
  /\ positiveOnly = TRUE
  /\ pinPos = (0 :> At(circles, 0).pos)
  /\ drag = NoDrag

\* ---------------------------------------------------------------- actions
\* A handler that returns without writing anything (mouseup while not
\* dragging, keydown/keyup that leave pressingShift as it is) is a stuttering
\* step and is not recorded as an event.
frameLoop ==
  \E now \in Times :
    LET bad == AccelerateThrows(circles, stationaryPoints, currentDragging)
    IN /\ Log(Event("tick", Zero, "", now - prev))
       /\ prev' = now
       /\ circles' = IF bad THEN circles
                     ELSE MoveAll(accelerateCircles(variant, circles,
                            stationaryPoints, currentDragging, springConstant,
                            springLength, g, clamp(now - prev, 0, dtMax)))
       /\ drawn' = IF bad THEN drawn ELSE Positions(circles')
       /\ integrated' = Integrated(circles, stationaryPoints, currentDragging)
       /\ threw' = bad
       /\ UNCHANGED <<variant, springLength, springConstant, g,
                      currentDragging, stationaryPoints, numCircles, dragging,
                      mousePos, pressingShift, pinPos, drag>>

EndDrag == [drag EXCEPT !.pure = FALSE]

\* line 82: if (currentDragging === 0) return;  (absent at lines 397-398)
ShiftIgnoresMutNever(v, cd) == FALSE

ShiftIgnores(v, cd) == v = "A" /\ cd = 0

P(pt) == Vec(Num(pt[1]), Num(pt[2]))

mousedown ==
  \E pt \in Points :
    LET p == P(pt)
        cd == getClosestPointIndex(circles, p)
    IN /\ Log(Event("mousedown", p, "", 0))
       /\ IF pressingShift
          THEN IF ShiftIgnores(variant, cd)
               THEN /\ currentDragging' = cd
                    /\ UNCHANGED <<circles, stationaryPoints, pinPos>>
               ELSE IF cd \in stationaryPoints
               THEN /\ stationaryPoints' = stationaryPoints \ {cd}
                    /\ currentDragging' = 0
                    /\ pinPos' = [i \in stationaryPoints' |-> pinPos[i]]
                    /\ UNCHANGED circles
               ELSE /\ circles' = [circles EXCEPT ![cd + 1].velocity = Zero]
                    /\ stationaryPoints' = stationaryPoints \cup {cd}
                    /\ currentDragging' = cd
                    /\ pinPos' = [i \in stationaryPoints' |->
                                    IF i = cd THEN At(circles, cd).pos
                                    ELSE pinPos[i]]
          ELSE /\ currentDragging' = cd
               /\ UNCHANGED <<stationaryPoints, pinPos>>
               /\ circles' = IF cd < Len(circles)
                             THEN [circles EXCEPT ![cd + 1].velocity = Zero]
                             ELSE circles
       /\ dragging' = IF pressingShift THEN dragging ELSE TRUE
       /\ threw' = (~pressingShift /\ cd >= Len(circles))
       /\ drag' = IF ~pressingShift /\ cd < Len(circles)
                  THEN [pure |-> TRUE, d |-> cd, pos0 |-> At(circles, cd).pos,
                        down |-> p, ptr |-> p]
                  ELSE EndDrag
       /\ UNCHANGED <<variant, springLength, springConstant, g, numCircles,
                      mousePos, pressingShift, prev, integrated>>

mouseup ==
  \E pt \in Points :
    LET p == P(pt)
        diff == VSub(p, mousePos)
        ok == currentDragging < Len(circles)
    IN /\ dragging
       /\ Log(Event("mouseup", p, "", 0))
       /\ dragging' = FALSE
       /\ circles' = IF ok
                     THEN [circles EXCEPT ![currentDragging + 1].velocity
                                            = VTimesInt(diff, flick)]
                     ELSE circles
       /\ currentDragging' = IF ok THEN 0 ELSE currentDragging
       /\ threw' = ~ok
       /\ drag' = EndDrag
       /\ UNCHANGED <<variant, springLength, springConstant, g,
                      stationaryPoints, numCircles, mousePos, pressingShift,
                      prev, integrated, pinPos>>

mousemove ==
  \E pt \in Points :
    LET p == P(pt)
        diff == VSub(p, mousePos)
        ok == currentDragging < Len(circles)
    IN /\ Log(Event("mousemove", p, "", 0))
       /\ IF dragging /\ ~ok
          THEN /\ threw' = TRUE
               /\ UNCHANGED <<circles, mousePos>>
          ELSE /\ threw' = FALSE
               /\ mousePos' = p
               /\ circles' = IF dragging
                             THEN [circles EXCEPT ![currentDragging + 1].pos
                                                    = VAdd(@, diff)]
                             ELSE circles
       /\ drag' = IF drag.pure /\ dragging /\ ok
                  THEN [drag EXCEPT !.ptr = p] ELSE EndDrag
       /\ UNCHANGED <<variant, springLength, springConstant, g,
                      currentDragging, stationaryPoints, numCircles, dragging,
                      pressingShift, prev, integrated, pinPos>>

keydown ==
  /\ ~pressingShift
  /\ Log(Event("keydown", Zero, "Shift", 0))
  /\ pressingShift' = TRUE
  /\ threw' = FALSE
  /\ drag' = EndDrag
  /\ UNCHANGED <<variant, circles, springLength, springConstant, g,
                 currentDragging, stationaryPoints, numCircles, dragging,
                 mousePos, prev, integrated, pinPos>>

keyup ==
  /\ pressingShift
  /\ Log(Event("keyup", Zero, "Shift", 0))
  /\ pressingShift' = FALSE
  /\ threw' = FALSE
  /\ drag' = EndDrag
  /\ UNCHANGED <<variant, circles, springLength, springConstant, g,
                 currentDragging, stationaryPoints, numCircles, dragging,
                 mousePos, prev, integrated, pinPos>>

updateSpringConstant ==
  \E val \in ConstVals :
    /\ Log(Event("updateSpringConstant", Zero, val, 0))
    /\ springConstant' = (IF IsNaN(ToNumber(val)) THEN NaN
                          ELSE Num(ToNumber(val)))
    /\ threw' = FALSE
    /\ drag' = EndDrag
    /\ UNCHANGED <<variant, circles, springLength, g, currentDragging,
                   stationaryPoints, numCircles, dragging, mousePos,
                   pressingShift, prev, integrated, pinPos>>

updateSpringLength ==
  \E val \in LengthVals :
    /\ Log(Event("updateSpringLength", Zero, val, 0))
    /\ springLength' = (IF IsNaN(ToNumber(val)) THEN NaN
                        ELSE Num(ToNumber(val)))
    /\ threw' = FALSE
    /\ drag' = EndDrag
    /\ UNCHANGED <<variant, circles, springConstant, g, currentDragging,
                   stationaryPoints, numCircles, dragging, mousePos,
                   pressingShift, prev, integrated, pinPos>>

updateGravity ==
  \E val \in GravityVals :
    /\ variant = "C"
    /\ Log(Event("updateGravity", Zero, val, 0))
    /\ g' = (IF IsNaN(ToNumber(val)) THEN NaN ELSE Num(ToNumber(val)))
    /\ threw' = FALSE
    /\ drag' = EndDrag
    /\ UNCHANGED <<variant, circles, springLength, springConstant,
                   currentDragging, stationaryPoints, numCircles, dragging,
                   mousePos, pressingShift, prev, integrated, pinPos>>

resetCircles ==
  /\ Log(Event("resetCircles", Zero, "", 0))
  /\ stationaryPoints' = {0}
  /\ circles' = generatePoints(variant, Origin, ResetCount(variant, numCircles))
  /\ threw' = FALSE
  /\ drag' = EndDrag
  /\ pinPos' = (0 :> Origin)
  /\ UNCHANGED <<variant, springLength, springConstant, g, currentDragging,
                 numCircles, dragging, mousePos, pressingShift, prev,
                 integrated>>

\* the while loop of lines 42-46: push copies of the last node until
\* numCircles reaches num
RECURSIVE Grow(_, _, _)
Grow(c, n, num) ==
  IF num > n
  THEN Grow(Append(c, PhysicsCircle(circleMass, c[Len(c)].pos)), n + 1, num)
  ELSE [circles |-> c, numCircles |-> n]

\* result of updateNumCircles on chain c with counter n; num is +val
Resize(c, n, num) ==
  IF IsNaN(num) THEN [circles |-> c, numCircles |-> n, threw |-> FALSE]
  ELSE IF num > n /\ Len(c) = 0
  THEN [circles |-> c, numCircles |-> n, threw |-> TRUE]
  ELSE LET grown == Grow(c, n, num)
       IN IF num < grown.numCircles
          THEN [circles |-> splice(grown.circles, num), numCircles |-> num,
                threw |-> FALSE]
          ELSE [circles |-> grown.circles, numCircles |-> grown.numCircles,
                threw |-> FALSE]

updateNumCircles ==
  \E val \in NumVals :
    LET r == Resize(circles, numCircles, ToNumber(val))
    IN /\ variant = "A"
       /\ Log(Event("updateNumCircles", Zero, val, 0))
       /\ circles' = r.circles
       /\ numCircles' = r.numCircles
       /\ threw' = r.threw
       /\ drag' = EndDrag
       /\ UNCHANGED <<variant, springLength, springConstant, g,
                      currentDragging, stationaryPoints, dragging, mousePos,
                      pressingShift, prev, integrated, pinPos>>

Next ==
  \/ frameLoop
  \/ mousedown
  \/ mouseup
  \/ mousemove
  \/ keydown
  \/ keyup
  \/ updateSpringConstant
  \/ updateSpringLength
  \/ updateGravity
  \/ resetCircles
  \/ updateNumCircles

Spec == Init /\ [][Next]_vars

\* ----------------------------------------------------------------- claims
IsStep(kind) == lastEvent'.kind = kind /\ steps' = steps + 1

\* C1 (pin invariant): every index in stationaryPoints that designates a node
\* has velocity (0,0) and the position it had when it was pinned (node 0:
\* at construction or reset).
C1_PinInvariant ==
  \A i \in stationaryPoints :
    i < Len(circles) =>
      /\ At(circles, i).velocity = Zero
      /\ At(circles, i).pos = pinPos[i]

\* C2 (drag override): from a standard pointer-down on node d, over pointer
\* moves and frame ticks only, position[d] is its position at drag start plus
\* the pointer's net movement since the pointer-down position, and a tick
\* never integrates d.
C2_DragOverride ==
  drag.pure =>
    /\ At(circles, drag.d).pos = VAdd(drag.pos0, VSub(drag.ptr, drag.down))
    /\ lastEvent.kind = "tick" => drag.d \notin integrated

\* C3 (integrator coverage): a frame tick updates the velocity of exactly the
\* nodes that are not pinned and are not the node under drag; with no drag in
\* progress every unpinned node is integrated.
C3_IntegratorCoverage ==
  lastEvent.kind = "tick" =>
    integrated = {i \in Indices(circles) :
                    /\ i \notin stationaryPoints
                    /\ ~(dragging /\ i = currentDragging)}

\* C4 (reset postcondition): right after resetCircles the pinned set is {0},
\* every node is at its stacked initial position with zero velocity, and no
\* drag is left (dragging false, currentDragging 0).
C4_ResetPostcondition ==
  lastEvent.kind = "resetCircles" =>
    /\ stationaryPoints = {0}
    /\ circles = generatePoints(variant, Origin, Len(circles))
    /\ ~dragging
    /\ currentDragging = 0

\* C5 (resize invalidation): right after updateNumCircles has shrunk the chain
\* to n >= 1 nodes, stationaryPoints holds no index >= n and currentDragging
\* is below n.
C5_ResizeInvalidation ==
  (/\ lastEvent.kind = "updateNumCircles"
   /\ Len(circles) < Len(preCircles)
   /\ Len(circles) >= 1) =>
    /\ \A i \in stationaryPoints : i < Len(circles)
    /\ currentDragging < Len(circles)

\* C6 (resize round trip): updateNumCircles(n) directly after
\* updateNumCircles(n) leaves chain and counter as they are; on a chain of
\* length n, updateNumCircles(n+1) then updateNumCircles(n) leaves the first n
\* nodes (position, velocity, mass) as they were before the two calls.
C6_ResizeRoundTrip ==
  [][(/\ lastEvent.kind = "updateNumCircles"
      /\ IsStep("updateNumCircles")) =>
       LET n == ToNumber(lastEvent'.val)
       IN /\ lastEvent'.val = lastEvent.val =>
               circles' = circles /\ numCircles' = numCircles
          /\ (ToNumber(lastEvent.val) = n + 1 /\ Len(preCircles) = n) =>
               /\ Len(circles') >= n
               /\ \A j \in 1 .. n : circles'[j] = preCircles[j]]_vars

\* C6 witness: a 2-node chain was grown to 3 (the new node coincides with the
\* old last node) and the call just handled shrank it back to 2.
C6_Witness ==
  /\ lastEvent.kind = "updateNumCircles" /\ lastEvent.val = "2"
  /\ prevEvent.kind = "updateNumCircles" /\ prevEvent.val = "3"
  /\ Len(preCircles) = 3
  /\ preCircles[3].pos = preCircles[2].pos
  /\ Len(circles) = 2

\* C7 (chain length): the chain always has at least one node.
C7_ChainLength == Len(circles) >= 1

\* C8 (invalid parameters rejected): the stored spring constant, spring
\* length and gravity are never NaN and the stored node count is never
\* negative, so no frame tick can read an invalid value.
C8_ParamsValid ==
  /\ ~IsNaN(springConstant)
  /\ ~IsNaN(springLength)
  /\ ~IsNaN(g)
  /\ numCircles >= 0

\* C9 (flick impulse): a pointer-up at p while dragging node d sets exactly
\* velocity[d] to 2 * (p - mousePos), changes no other node, clears dragging
\* and sets currentDragging to 0.
C9_FlickImpulse ==
  [][(dragging /\ IsStep("mouseup")) =>
       /\ currentDragging < Len(circles)
       /\ circles' = [circles EXCEPT ![currentDragging + 1].velocity =
                        VTimesInt(VSub(lastEvent'.p, mousePos), 2)]
       /\ ~dragging'
       /\ currentDragging' = 0]_vars

\* C10 (dt clamp): a frame tick integrates with min(max(elapsed, 0), 17): an
\* elapsed time of 17 ms or more (10000 ms included) gives every node the
\* velocity a 17 ms step gives, a negative one that of a 0 ms step.
C10_DtClamp ==
  (lastEvent.kind = "tick" /\ ~threw) =>
    LET e == lastEvent.elapsed
        dt == IF e >= 17 THEN 17 ELSE IF e < 0 THEN 0 ELSE e
    IN circles = MoveAll(accelerateCircles(variant, preCircles,
                   stationaryPoints, currentDragging, springConstant,
                   springLength, g, dt))

\* C10 witness: a tick 10000 ms after the previous one has integrated nodes
\* and left one of them moving.
C10_Witness ==
  /\ lastEvent.kind = "tick"
  /\ lastEvent.elapsed = 10000
  /\ integrated # {}
  /\ \E i \in integrated : At(circles, i).velocity # Zero

\* C11 as stated (three-node scenario): on the 3-node chain at its initial
\* 120 spacing with mass 0.5, k = 4, rest length 80, g = 9.8 and node 0
\* pinned, one 16 ms step leaves node 1 and node 2 both moving straight down
\* (vx = 0, vy > 0) and node 0 at rest at its initial position.
C11_Scenario ==
  /\ variant = "A"
  /\ lastEvent.kind = "tick" /\ lastEvent.elapsed = 16
  /\ preCircles = generatePoints("A", Origin, 3)
  /\ springConstant = Num(springConstantInit)
  /\ springLength = Num(springLengthInit)
  /\ g = gInit
  /\ integrated = {1, 2}

C11_ThreeNodeOriginal ==
  C11_Scenario =>
    /\ At(circles, 1).velocity[1] = 0 /\ At(circles, 1).velocity[2] > 0
    /\ At(circles, 2).velocity[1] = 0 /\ At(circles, 2).velocity[2] > 0
    /\ At(circles, 0) = At(preCircles, 0)
    /\ At(circles, 0).velocity = Zero

\* C11 as amended: in that scenario node 1 moves straight down (vy > 0) and
\* node 2, which has no node below it and is pulled by the stretched spring
\* above, moves straight up (vx = 0, vy < 0); node 0 stays at rest at its
\* initial position.
C11_ThreeNode ==
  C11_Scenario =>
    /\ At(circles, 1).velocity[1] = 0 /\ At(circles, 1).velocity[2] > 0
    /\ At(circles, 2).velocity[1] = 0 /\ At(circles, 2).velocity[2] < 0
    /\ At(circles, 0) = At(preCircles, 0)
    /\ At(circles, 0).velocity = Zero

\* C11 witness: the scenario has happened (resize to 3 nodes, one 16 ms tick)
C11_Witness ==
  /\ C11_Scenario
  /\ Len(circles) = 3
  /\ At(circles, 0).pos = Origin

\* C12 (pinned/dragged exclusion): in the variant that refuses to
\* shift-toggle index 0, no drag is ever in progress on a node that is in
\* stationaryPoints.
C12_PinnedNotDragged ==
  variant = "A" => ~(dragging /\ currentDragging \in stationaryPoints)

\* C13 (pin toggle): a pointer-down with shift held toggles the nearest node
\* in stationaryPoints (node 0 is left alone in the resizing variant), zeroes
\* the velocity of a node it pins, leaves dragging false and leaves no
\* unpinned node designated by currentDragging.
C13_PinToggle ==
  [][(pressingShift /\ IsStep("mousedown")) =>
       LET cd == getClosestPointIndex(circles, lastEvent'.p)
       IN /\ stationaryPoints' =
               (IF ShiftIgnores(variant, cd) THEN stationaryPoints
                ELSE IF cd \in stationaryPoints THEN stationaryPoints \ {cd}
                ELSE stationaryPoints \cup {cd})
          /\ (cd \in stationaryPoints' \ stationaryPoints) =>
               At(circles', cd).velocity = Zero
          /\ ~dragging'
          /\ currentDragging' \in stationaryPoints']_vars

\* C14 (anchor index safety): no frame tick evaluates the force above node 0,
\* that is, accelerateCircles never reads circles[-1].
C14_AnchorIndexSafety == lastEvent.kind = "tick" => ~threw

\* C17 (implicit): in the resizing variant index 0 is always in
\* stationaryPoints.
C17_AnchorPinned == variant = "A" => 0 \in stationaryPoints

\* C17 witness: a shift pointer-down whose nearest node is node 0 has been
\* handled in the resizing variant, on a chain that has a node 0.
C17_Witness ==
  /\ variant = "A"
  /\ lastEvent.kind = "mousedown"
  /\ pressingShift
  /\ Len(circles) >= 1
  /\ getClosestPointIndex(circles, lastEvent.p) = 0
  /\ 0 \in stationaryPoints

\* C15 (frame ordering): after a frame tick that ran to its end, the
\* velocity of every integrated node is the one computed from the chain as
\* it was when the tick started, every node has moved by its velocity exactly
\* once, and the positions drawn are the positions after the move.
C15_FrameOrdering ==
  (lastEvent.kind = "tick" /\ ~threw) =>
    LET dx == clamp(lastEvent.elapsed, 0, dtMax)
    IN /\ Len(circles) = Len(preCircles)
       /\ \A i \in Indices(preCircles) :
            /\ i \in integrated =>
                 At(circles, i).velocity =
                   NewVelocity(variant, preCircles, i, springConstant,
                               springLength, g, dx)
            /\ At(circles, i).pos =
                 VAdd(At(preCircles, i).pos, At(circles, i).velocity)
       /\ drawn = Positions(circles)

\* C15 witness: a tick has integrated two neighbouring nodes, the lower-index
\* one now moving, so a position written inside the loop would have been read
\* by the next pass.
C15_Witness ==
  /\ lastEvent.kind = "tick" /\ ~threw
  /\ \E i \in integrated :
       /\ i + 1 \in integrated
       /\ ~IsNaN(At(circles, i).velocity[2])
       /\ At(circles, i).velocity # Zero
       /\ At(circles, i).pos # At(preCircles, i).pos
  /\ drawn = Positions(circles)

\* C16 (nearest-node pick): after a pointer-down without shift on a non-empty
\* chain, currentDragging is an index of the chain, no node is strictly
\* closer to the pointer than that node, and no node of lower index is at the
\* same distance.
C16_NearestPick ==
  (lastEvent.kind = "mousedown" /\ ~pressingShift /\ Len(circles) > 0) =>
    LET dist(i) == distance(At(circles, i).pos, lastEvent.p)
    IN /\ currentDragging \in Indices(circles)
       /\ \A j \in Indices(circles) :
            /\ ~FLess(dist(j), dist(currentDragging))
            /\ j < currentDragging =>
                 (IsNaN(dist(j)) \/ dist(j) # dist(currentDragging))

\* C16 witness: the pointer went down where two nodes are at the same,
\* minimal distance, and the lower index was picked.
C16_Witness ==
  /\ lastEvent.kind = "mousedown" /\ ~pressingShift
  /\ \E j \in Indices(circles) :
       /\ j > currentDragging
       /\ ~IsNaN(distance(At(circles, j).pos, lastEvent.p))
       /\ distance(At(circles, j).pos, lastEvent.p) =
            distance(At(circles, currentDragging).pos, lastEvent.p)

\* C18 (implicit): as long as every updateNumCircles call so far had a
\* positive integer argument, numCircles equals circles.length, whatever
\* resets and other events came in between.
C18_CounterMatchesLength ==
  (variant = "A" /\ positiveOnly) => numCircles = Len(circles)

\* C18 witness: a resize to a positive count other than the initial one,
\* followed by a reset.
C18_Witness ==
  /\ variant = "A" /\ positiveOnly
  /\ prevEvent.kind = "updateNumCircles"
  /\ lastEvent.kind = "resetCircles"
  /\ numCircles # numCirclesInitA
  /\ Len(circles) = numCircles
====
